---- MODULE Spec2Model ----
(***************************************************************************)
(* devsync: block-wise compare of a source stream against a destination   *)
(* file, patching the destination blocks that differ (src/main.rs).       *)
(*                                                                         *)
(* One behaviour is a session on one source and one destination file:     *)
(* main() is run with or without --dry-run and then, up to MaxRuns runs   *)
(* in all, again without it on the same files with the same sizes, every  *)
(* run re-opening both files at offset 0.                                  *)
(* Within a run every read() call of fill_buf and every iteration of the  *)
(* block loop of sync_files is one step.                                  *)
(***************************************************************************)
EXTENDS Integers, Sequences, FiniteSets, TLC

\* ------------------------------------------------------------- bounds
MaxLen   == 4   \* longest source / destination at the start of a session
MaxBlock == 3   \* largest config.block_size
MaxBuf   == 3   \* largest config.buf_size
MaxRuns  == 2   \* invocations of main() in one session
MaxCount == 6   \* blocks followed in a run whose block loop does not advance

Byte == {0, 1}

Streams == UNION {[1..n -> Byte] : n \in 0..MaxLen}

VARIABLES
    config,         \* Config: block_size, buf_size, dry_run
    src,            \* content of the source stream
    src_pos,        \* read cursor of src_file
    dest,           \* content of the destination file
    dest_pos,       \* cursor of dest_file (shared by read, seek and write)
    src_buf,        \* sync_files: src_buf
    dest_buf,       \* sync_files: dest_buf
    read_size,      \* fill_buf: read_size of the fill in progress
    src_buf_size,   \* sync_files: src_buf_size
    dest_buf_size,  \* sync_files: dest_buf_size
    buf_offs,       \* sync_files: buf_offs
    diff_blocks,    \* sync_files: diff_blocks
    diff_bytes,     \* sync_files: diff_bytes
    total_bytes,    \* sync_files: total_bytes
    block_cnt,      \* sync_files: block_cnt
    old_pos,        \* sync_files: old_pos of the last patch
    pc,             \* position in sync_files
    err,            \* which expect()/panic!() ended the run, "none" otherwise
    run,            \* ordinal of the current invocation
    dest0,          \* destination content when the current run started
    io,             \* seek and write calls issued on dest_file in this run
    blocks,         \* the blocks compared in this run, in order
    prev            \* outcome of the previous run of the session

vars == << config, src, src_pos, dest, dest_pos, src_buf, dest_buf, read_size,
           src_buf_size, dest_buf_size, buf_offs, diff_blocks, diff_bytes,
           total_bytes, block_cnt, old_pos, pc, err, run, dest0, io, blocks,
           prev >>

\* ------------------------------------------------------------- helpers
Min(a, b) == IF a < b THEN a ELSE b

Max(a, b) == IF a > b THEN a ELSE b

\* vec![0; n]
Zeros(n) == [k \in 1..n |-> 0]

\* &buf[from..to] (0-based, half-open)
Slice(buf, from, to) == SubSeq(buf, from + 1, to)

\* The byte counts one read() call may return: 0 exactly at end of stream,
\* otherwise any positive count up to the space offered.
ReadCounts(avail, want) == IF avail = 0 \/ want = 0 THEN {0} ELSE 1..Min(avail, want)

\* read() of rc bytes at cursor pos of data into buf[at..]
ReadInto(buf, at, data, pos, rc) ==
    [k \in 1..Len(buf) |->
        IF k > at /\ k <= at + rc THEN data[pos + (k - at)] ELSE buf[k]]

\* fill_buf as it would be with a single read() per fill, whatever it returns
FillDoneAfterOneRead(rc, filled, cap) == TRUE

\* fill_buf leaves its loop after this read: end of stream, or buffer full
FillDone(rc, filled, cap) == rc = 0 \/ ~(filled < cap)

\* File::write of all of bytes at cursor pos: overwrites in place, extends the
\* file when it runs past the end, a gap left by a seek past the end reads 0
WriteAt(data, pos, bytes) ==
    IF Len(bytes) = 0 THEN data
    ELSE [k \in 1..Max(Len(data), pos + Len(bytes)) |->
            IF k > pos /\ k <= pos + Len(bytes) THEN bytes[k - pos]
            ELSE IF k <= Len(data) THEN data[k]
            ELSE 0]

\* ------------------------------------------------------------- initial state
NoRun == [ran |-> FALSE, dry_run |-> FALSE, diff_blocks |-> 0, diff_bytes |-> 0,
          total_bytes |-> 0, block_cnt |-> 0, dest0 |-> << >>, writes |-> 0]

NoIo == [seeks |-> 0, writes |-> 0]

\* The Config values handed to sync_files: block_size and buf_size are
\* independent fields of Config, both positive here. parse_opts sets buf_size
\* to the usize product buf_blocks * block_size.
Configs == [block_size : 1..MaxBlock, buf_size : 1..MaxBuf, dry_run : BOOLEAN]

\* Entry of sync_files on freshly opened files: counters at 0, both buffers
\* allocated and zeroed, both cursors at 0.
Enter(c, d) ==
    /\ config' = c
    /\ src_pos' = 0
    /\ dest_pos' = 0
    /\ dest0' = d
    /\ src_buf' = Zeros(c.buf_size)
    /\ dest_buf' = Zeros(c.buf_size)
    /\ read_size' = 0
    /\ src_buf_size' = 0
    /\ dest_buf_size' = 0
    /\ buf_offs' = 0
    /\ diff_blocks' = 0
    /\ diff_bytes' = 0
    /\ total_bytes' = 0
    /\ block_cnt' = 0
    /\ old_pos' = 0
    /\ pc' = "fill_src"
    /\ err' = "none"
    /\ io' = NoIo
    /\ blocks' = << >>

\* The Config values with block_size or buf_size 0, which nothing between the
\* command line and sync_files excludes.
ZeroConfigs ==
    {c \in [block_size : 0..MaxBlock, buf_size : 0..MaxBuf, dry_run : BOOLEAN] :
        c.block_size = 0 \/ c.buf_size = 0}

Init ==
    /\ config \in Configs
    /\ src \in Streams
    /\ dest \in Streams
    /\ src_pos = 0
    /\ dest_pos = 0
    /\ dest0 = dest
    /\ src_buf = Zeros(config.buf_size)
    /\ dest_buf = Zeros(config.buf_size)
    /\ read_size = 0
    /\ src_buf_size = 0
    /\ dest_buf_size = 0
    /\ buf_offs = 0
    /\ diff_blocks = 0
    /\ diff_bytes = 0
    /\ total_bytes = 0
    /\ block_cnt = 0
    /\ old_pos = 0
    /\ pc = "fill_src"
    /\ err = "none"
    /\ run = 1
    /\ io = NoIo
    /\ blocks = << >>
    /\ prev = NoRun

\* ------------------------------------------------------------- fill_buf
\* One read() call of fill_buf(src_file, &mut src_buf).
ReadSrc ==
    /\ pc = "fill_src"
    /\ \E rc \in ReadCounts(Len(src) - src_pos, config.buf_size - read_size) :
          /\ src_buf' = ReadInto(src_buf, read_size, src, src_pos, rc)
          /\ src_pos' = src_pos + rc
          /\ IF FillDone(rc, read_size + rc, config.buf_size)
                THEN /\ src_buf_size' = read_size + rc
                     /\ read_size' = 0
                     /\ pc' = "fill_dest"
                ELSE /\ read_size' = read_size + rc
                     /\ UNCHANGED << src_buf_size, pc >>
    /\ UNCHANGED << config, src, dest, dest_pos, dest_buf, dest_buf_size, buf_offs,
                    diff_blocks, diff_bytes, total_bytes, block_cnt, old_pos, err,
                    run, dest0, io, blocks, prev >>

\* One read() call of fill_buf(dest_file, &mut dest_buf).
ReadDest ==
    /\ pc = "fill_dest"
    /\ \E rc \in ReadCounts(Max(Len(dest) - dest_pos, 0), config.buf_size - read_size) :
          /\ dest_buf' = ReadInto(dest_buf, read_size, dest, dest_pos, rc)
          /\ dest_pos' = dest_pos + rc
          /\ IF FillDone(rc, read_size + rc, config.buf_size)
                THEN /\ dest_buf_size' = read_size + rc
                     /\ read_size' = 0
                     /\ pc' = "check"
                ELSE /\ read_size' = read_size + rc
                     /\ UNCHANGED << dest_buf_size, pc >>
    /\ UNCHANGED << config, src, src_pos, dest, src_buf, src_buf_size, buf_offs,
                    diff_blocks, diff_bytes, total_bytes, block_cnt, old_pos, err,
                    run, dest0, io, blocks, prev >>

\* A read() call returns Err: expect("read") panics.
ReadFail ==
    /\ pc \in {"fill_src", "fill_dest"}
    /\ read_size < config.buf_size
    /\ pc' = "panic"
    /\ err' = "read"
    /\ UNCHANGED << config, src, src_pos, dest, dest_pos, src_buf, dest_buf,
                    read_size, src_buf_size, dest_buf_size, buf_offs, diff_blocks,
                    diff_bytes, total_bytes, block_cnt, old_pos, run, dest0, io,
                    blocks, prev >>

\* ------------------------------------------------------------- sync_files
\* while buf_offs < src_buf_size && buf_offs < dest_buf_size
InnerLoop(offs) == offs < src_buf_size /\ offs < dest_buf_size

\* the end-of-stream test as it would be with && for ||
BothEmpty == src_buf_size = 0 /\ dest_buf_size = 0

\* if src_buf_size == 0 || dest_buf_size == 0
EitherEmpty == src_buf_size = 0 \/ dest_buf_size = 0

\* Both buffers are filled: leave the outer loop at end of either stream,
\* otherwise start walking the buffers from offset 0.
LoopCheck ==
    /\ pc = "check"
    /\ IF EitherEmpty
          THEN pc' = "done" /\ UNCHANGED buf_offs
          ELSE /\ buf_offs' = 0
               /\ pc' = IF InnerLoop(0) THEN "compare" ELSE "fill_src"
    /\ UNCHANGED << config, src, src_pos, dest, dest_pos, src_buf, dest_buf,
                    read_size, src_buf_size, dest_buf_size, diff_blocks,
                    diff_bytes, total_bytes, block_cnt, old_pos, err, run, dest0,
                    io, blocks, prev >>

src_cmp_size == Min(config.block_size, src_buf_size - buf_offs)

dest_cmp_size == Min(config.block_size, dest_buf_size - buf_offs)

cmp_size == Min(src_cmp_size, dest_cmp_size)

src_slice == Slice(src_buf, buf_offs, buf_offs + cmp_size)

dest_slice == Slice(dest_buf, buf_offs, buf_offs + cmp_size)

\* the patch as it would be without the test of config.dry_run
WritesAlways == TRUE

\* if !config.dry_run
WritesEnabled == ~config.dry_run

\* SeekFrom::Start((block_cnt * config.block_size) as u64)
PatchTarget == block_cnt * config.block_size

\* the write as it would be without the test of its count
WriteUnchecked(wc, size) == TRUE

\* the write is accepted: if wc != cmp_size { panic!(...) }
WriteComplete(wc, size) == wc = size

\* the cursor as it would be without the restoring seek
CursorLeftAfterWrite(saved, after_write) == after_write

\* The cursor after seek(SeekFrom::Start(old_pos)), given the cursor the write left
RestorePos(saved, after_write) == saved

\* The record of the block under comparison: its ordinal, its size, the outcome,
\* the stream offsets its two slices were read from, its offset in the buffers
\* and the sizes the two fills of its refill returned.
ThisBlock ==
    [index     |-> block_cnt,
     size      |-> cmp_size,
     differ    |-> src_slice # dest_slice,
     src_at    |-> (src_pos - src_buf_size) + buf_offs,
     dest_at   |-> (dest_pos - dest_buf_size) + buf_offs,
     offs      |-> buf_offs,
     src_fill  |-> src_buf_size,
     dest_fill |-> dest_buf_size]

\* the end of an iteration as it would be without block_cnt += 1
AdvanceBlockUncounted ==
    /\ block_cnt' = block_cnt
    /\ buf_offs' = buf_offs + cmp_size
    /\ total_bytes' = total_bytes + cmp_size
    /\ blocks' = Append(blocks, ThisBlock)
    /\ pc' = IF InnerLoop(buf_offs + cmp_size) THEN "compare" ELSE "fill_src"

\* block_cnt += 1; buf_offs += cmp_size; total_bytes += cmp_size; loop test
Advance ==
    /\ block_cnt' = block_cnt + 1
    /\ buf_offs' = buf_offs + cmp_size
    /\ total_bytes' = total_bytes + cmp_size
    /\ blocks' = Append(blocks, ThisBlock)
    /\ pc' = IF InnerLoop(buf_offs + cmp_size) THEN "compare" ELSE "fill_src"

\* One iteration of the block loop where nothing is written: the slices are
\* equal, or they differ in a dry run.
CompareOnly ==
    /\ pc = "compare"
    /\ ~(src_slice # dest_slice /\ WritesEnabled)
    /\ IF src_slice # dest_slice
          THEN /\ diff_blocks' = diff_blocks + 1
               /\ diff_bytes' = diff_bytes + cmp_size
          ELSE UNCHANGED << diff_blocks, diff_bytes >>
    /\ Advance
    /\ UNCHANGED << config, src, src_pos, dest, dest_pos, src_buf, dest_buf,
                    read_size, src_buf_size, dest_buf_size, old_pos, err, run,
                    dest0, io, prev >>

\* One iteration where the slices differ and the block is patched: save the
\* cursor, seek to the block, write the source slice, restore the cursor.
ComparePatch ==
    /\ pc = "compare"
    /\ src_slice # dest_slice
    /\ WritesEnabled
    /\ diff_blocks' = diff_blocks + 1
    /\ diff_bytes' = diff_bytes + cmp_size
    /\ old_pos' = dest_pos
    /\ \E wc \in 0..cmp_size :
          /\ WriteComplete(wc, cmp_size)
          /\ dest' = WriteAt(dest, PatchTarget, SubSeq(src_slice, 1, wc))
          /\ dest_pos' = RestorePos(dest_pos, PatchTarget + wc)
    /\ io' = [seeks |-> io.seeks + 3, writes |-> io.writes + 1]
    /\ Advance
    /\ UNCHANGED << config, src, src_pos, src_buf, dest_buf, read_size,
                    src_buf_size, dest_buf_size, err, run, dest0, prev >>

\* The patch of a differing block fails at one of its four calls, or the write
\* is short: the run panics there, after the difference has been counted.
PatchFail ==
    /\ pc = "compare"
    /\ src_slice # dest_slice
    /\ WritesEnabled
    /\ diff_blocks' = diff_blocks + 1
    /\ diff_bytes' = diff_bytes + cmp_size
    /\ pc' = "panic"
    /\ \/ /\ err' = "seek current"
          /\ io' = [io EXCEPT !.seeks = @ + 1]
          /\ UNCHANGED << old_pos, dest, dest_pos >>
       \/ /\ err' = "seek"
          /\ old_pos' = dest_pos
          /\ io' = [io EXCEPT !.seeks = @ + 2]
          /\ UNCHANGED << dest, dest_pos >>
       \/ /\ err' = "write"
          /\ old_pos' = dest_pos
          /\ dest_pos' = PatchTarget
          /\ io' = [seeks |-> io.seeks + 2, writes |-> io.writes + 1]
          /\ UNCHANGED dest
       \/ \E wc \in 0..cmp_size :
             /\ ~WriteComplete(wc, cmp_size)
             /\ err' = "wc != cmp_size"
             /\ old_pos' = dest_pos
             /\ dest' = WriteAt(dest, PatchTarget, SubSeq(src_slice, 1, wc))
             /\ dest_pos' = PatchTarget + wc
             /\ io' = [seeks |-> io.seeks + 2, writes |-> io.writes + 1]
       \/ /\ err' = "seek restore"
          /\ old_pos' = dest_pos
          /\ dest' = WriteAt(dest, PatchTarget, src_slice)
          /\ dest_pos' = PatchTarget + cmp_size
          /\ io' = [seeks |-> io.seeks + 3, writes |-> io.writes + 1]
    /\ UNCHANGED << config, src, src_pos, src_buf, dest_buf, read_size,
                    src_buf_size, dest_buf_size, buf_offs, total_bytes, block_cnt,
                    run, dest0, blocks, prev >>

\* ------------------------------------------------------------- main
\* The run has printed its summary and returned; main() is invoked again,
\* without --dry-run, on the same source and the destination as the run left
\* it, with the same sizes.
Rerun ==
    /\ pc = "done"
    /\ run < MaxRuns
    /\ run' = run + 1
    /\ prev' = [ran |-> TRUE, dry_run |-> config.dry_run,
                diff_blocks |-> diff_blocks, diff_bytes |-> diff_bytes,
                total_bytes |-> total_bytes, block_cnt |-> block_cnt,
                dest0 |-> dest0, writes |-> io.writes]
    /\ Enter([config EXCEPT !.dry_run = FALSE], dest)
    /\ UNCHANGED << src, dest >>

Next ==
    \/ ReadSrc
    \/ ReadDest
    \/ ReadFail
    \/ LoopCheck
    \/ CompareOnly
    \/ ComparePatch
    \/ PatchFail
    \/ Rerun

Spec == Init /\ [][Next]_vars

\* The sessions of Spec together with those whose sizes are 0: the same steps,
\* a run being followed for MaxCount blocks at most.
InitZero ==
    /\ config \in Configs \cup ZeroConfigs
    /\ src \in Streams
    /\ dest \in Streams
    /\ src_pos = 0
    /\ dest_pos = 0
    /\ dest0 = dest
    /\ src_buf = Zeros(config.buf_size)
    /\ dest_buf = Zeros(config.buf_size)
    /\ read_size = 0
    /\ src_buf_size = 0
    /\ dest_buf_size = 0
    /\ buf_offs = 0
    /\ diff_blocks = 0
    /\ diff_bytes = 0
    /\ total_bytes = 0
    /\ block_cnt = 0
    /\ old_pos = 0
    /\ pc = "fill_src"
    /\ err = "none"
    /\ run = 1
    /\ io = NoIo
    /\ blocks = << >>
    /\ prev = NoRun

NextZero ==
    \/ block_cnt < MaxCount /\ ReadSrc
    \/ block_cnt < MaxCount /\ ReadDest
    \/ block_cnt < MaxCount /\ ReadFail
    \/ block_cnt < MaxCount /\ LoopCheck
    \/ block_cnt < MaxCount /\ CompareOnly
    \/ block_cnt < MaxCount /\ ComparePatch
    \/ block_cnt < MaxCount /\ PatchFail
    \/ block_cnt < MaxCount /\ Rerun

SpecZero == InitZero /\ [][NextZero]_vars

\* ------------------------------------------------------------- properties
\* buf_size is a whole number of blocks
Aligned == config.buf_size % config.block_size = 0

\* min(len(source), len(destination)) of the streams the run was given
Overlap == Min(Len(src), Len(dest0))

\* Byte k (1-based) of the destination was inside the slice of a compared block
\* with the given outcome.
InBlock(k, differ) ==
    \E i \in 1..Len(blocks) :
        /\ blocks[i].differ = differ
        /\ k > blocks[i].dest_at
        /\ k <= blocks[i].dest_at + blocks[i].size

\* The statistics of the previous run equal those of this one.
SameStatistics ==
    /\ prev.block_cnt = block_cnt
    /\ prev.diff_blocks = diff_blocks
    /\ prev.total_bytes = total_bytes
    /\ prev.diff_bytes = diff_bytes

\* C1: when a run without dry_run has completed, the destination equals the
\* source at every offset below min(len(source), len(destination)).
C1_SyncedOverOverlap ==
    (pc = "done" /\ ~config.dry_run) =>
        \A k \in 1..Overlap : k <= Len(dest) /\ dest[k] = src[k]

\* C1 holds of every run whose buf_size is a whole number of blocks.
C1_AlignedSyncedOverOverlap == Aligned => C1_SyncedOverOverlap

\* C2: a patch leaves the destination cursor where it found it and saves that
\* position in old_pos; between two reads of the destination no step moves the
\* cursor, so the next fill_buf reads on from the saved position.
C2_PatchKeepsCursor ==
    [][ /\ (pc = "compare" /\ pc' # "panic") => dest_pos' = dest_pos
        /\ (pc = "compare" /\ io'.writes > io.writes /\ pc' # "panic")
              => old_pos' = dest_pos
        /\ pc \in {"fill_src", "check"} => dest_pos' = dest_pos ]_vars

\* A patch has been written and the next fill of the destination buffer starts
\* at the saved position, with destination bytes still to read.
C2_Witness ==
    /\ pc = "fill_dest"
    /\ read_size = 0
    /\ io.writes > 0
    /\ dest_pos = old_pos
    /\ dest_pos < Len(dest)
    /\ blocks[Len(blocks)].differ

\* C3: the two slices of a differing block with index i and size s hold the
\* bytes at stream offsets [i * block_size, i * block_size + s) of the source
\* and of the destination, which is the range the patch is written to.
C3_DifferingBlockAtIndexOffset ==
    (pc = "compare" /\ src_slice # dest_slice) =>
        /\ ThisBlock.src_at = PatchTarget
        /\ ThisBlock.dest_at = PatchTarget
        /\ \A j \in 1..cmp_size :
              /\ PatchTarget + j <= Len(src)
              /\ PatchTarget + j <= Len(dest)
              /\ src_slice[j] = src[PatchTarget + j]
              /\ dest_slice[j] = dest[PatchTarget + j]

\* C3 holds of every run whose buf_size is a whole number of blocks.
C3_AlignedDifferingBlockAtIndexOffset == Aligned => C3_DifferingBlockAtIndexOffset

\* C4: when a run has completed, every destination byte inside a block that
\* compared equal, and every destination byte at an offset at or beyond
\* min(len(source), len(destination)), is a byte the destination had before the
\* run, with the same value.
C4_OnlyDifferingBlocksModified ==
    pc = "done" =>
        \A k \in 1..Len(dest) :
            (k > Overlap \/ InBlock(k, FALSE)) =>
                (k <= Len(dest0) /\ dest[k] = dest0[k])

\* C4 holds of every run whose buf_size is a whole number of blocks.
C4_AlignedOnlyDifferingBlocksModified == Aligned => C4_OnlyDifferingBlocksModified

\* C5: the destination always has the length it had when the run started.
C5_LengthUnchanged == Len(dest) = Len(dest0)

\* C5 holds of every run whose buf_size is a whole number of blocks.
C5_AlignedLengthUnchanged == Aligned => C5_LengthUnchanged

\* C6: in a dry run no seek and no write is issued on the destination, and the
\* destination content stays what it was when the run started.
C6_DryRunLeavesDestination ==
    config.dry_run => (io = NoIo /\ dest = dest0)

\* A dry run has completed after finding two differing blocks.
C6_Witness == config.dry_run /\ pc = "done" /\ diff_blocks >= 2

\* C7: a run without dry_run that follows a dry run on the same source,
\* destination and sizes ends with the statistics the dry run ended with.
C7_DryRunSameStatistics ==
    (pc = "done" /\ prev.ran /\ prev.dry_run /\ ~config.dry_run /\ prev.dest0 = dest0)
        => SameStatistics

\* C7 holds of every run whose buf_size is a whole number of blocks.
C7_AlignedDryRunSameStatistics == Aligned => C7_DryRunSameStatistics

\* C8: a run without dry_run that follows a completed run without dry_run finds
\* no differing block and issues no write.
C8_SecondSyncFindsNothing ==
    (prev.ran /\ ~prev.dry_run /\ ~config.dry_run) =>
        (diff_blocks = 0 /\ io.writes = 0)

\* C8 holds of every run whose buf_size is a whole number of blocks.
C8_AlignedSecondSyncFindsNothing == Aligned => C8_SecondSyncFindsNothing

\* C9: no compared slice reaches an offset at or beyond
\* min(len(source), len(destination)), and a completed run has compared exactly
\* that many bytes.
C9_StopsAtShorterStream ==
    /\ \A i \in 1..Len(blocks) :
          /\ blocks[i].src_at + blocks[i].size <= Overlap
          /\ blocks[i].dest_at + blocks[i].size <= Overlap
    /\ pc = "done" => total_bytes = Overlap

\* C9 holds of every dry run and of every run whose buf_size is a whole number
\* of blocks.
C9_AlignedStopsAtShorterStream == (Aligned \/ config.dry_run) => C9_StopsAtShorterStream

\* C10: a completed fill_buf returns at most the buffer capacity, less than the
\* capacity only with the stream at its end, and the bytes it placed are the
\* bytes of the stream from the cursor it started at, in order.
C10_FillBufContract ==
    /\ (pc \in {"fill_dest", "check", "compare"}) =>
          /\ src_buf_size <= config.buf_size
          /\ src_buf_size < config.buf_size => src_pos = Len(src)
          /\ src_buf_size <= src_pos
          /\ Slice(src_buf, 0, src_buf_size) = Slice(src, src_pos - src_buf_size, src_pos)
    /\ pc = "check" =>
          /\ dest_buf_size <= config.buf_size
          /\ dest_buf_size < config.buf_size => dest_pos = Len(dest)
          /\ dest_buf_size <= dest_pos
          /\ Slice(dest_buf, 0, dest_buf_size) = Slice(dest, dest_pos - dest_buf_size, dest_pos)

\* Both fills of a refill are complete: the source filled a buffer of several
\* bytes, the destination ran out part way through its buffer.
C10_Witness ==
    /\ pc = "check"
    /\ config.buf_size >= 2
    /\ src_buf_size = config.buf_size
    /\ dest_buf_size > 0
    /\ dest_buf_size < config.buf_size

\* C11: while a run has not panicked, and so after every compared block and
\* when the run completes, diff_bytes <= total_bytes and diff_blocks <=
\* block_cnt, and every compared block has a size s with 0 < s <= block_size.
C11_CountersBounded ==
    /\ pc # "panic" =>
          /\ diff_bytes <= total_bytes
          /\ diff_blocks <= block_cnt
    /\ \A i \in 1..Len(blocks) :
          /\ 0 < blocks[i].size
          /\ blocks[i].size <= config.block_size

\* A run has completed with several blocks compared, some but not all of them
\* differing, the last one shorter than block_size.
C11_Witness ==
    /\ pc = "done"
    /\ block_cnt >= 2
    /\ diff_blocks >= 1
    /\ diff_blocks < block_cnt
    /\ blocks[Len(blocks)].size < config.block_size

\* An upper bound on the steps the current run has left within its refill,
\* by position: a refill reads each buffer in at most buf_size + 1 calls and
\* walks it in at most buf_size blocks.
Phase ==
    LET B == config.buf_size IN
    CASE pc = "fill_src" /\ read_size = 0  -> B + 4
      [] pc = "fill_src" /\ read_size > 0  -> (B - read_size) + (3 * B + 8)
      [] pc = "fill_dest" /\ src_buf_size = 0 -> (B - read_size) + 3
      [] pc = "fill_dest" /\ src_buf_size > 0 -> (B - read_size) + (2 * B + 7)
      [] pc = "check" /\ src_buf_size = 0  -> 1
      [] pc = "check" /\ src_buf_size > 0  -> 2 * B + 6
      [] pc = "compare"                    -> (B - buf_offs) + (B + 5)
      [] OTHER                             -> 0

\* A variant of the session: the runs left, then the source bytes the current
\* run has not read yet, then the position within the refill.
Rank ==
    LET U == 4 * config.buf_size + 8 IN
    (MaxRuns - run) * (U * (Len(src) + 1)) + U * (Len(src) - src_pos) + Phase

\* C12: sync_files terminates: every step of a run lowers a variant that is
\* never negative, every block compared has a positive size, a refill with both
\* buffers non-empty goes on to compare a block, and a refill in which either
\* buffer came back empty ends the run.
C12_Terminates ==
    /\ [](Rank >= 0 /\ (pc = "compare" => cmp_size > 0))
    /\ [][Rank' < Rank]_vars
    /\ [][pc = "check" =>
            IF src_buf_size = 0 \/ dest_buf_size = 0
               THEN pc' = "done" ELSE pc' = "compare"]_vars

\* A run has completed after more than one refill that compared blocks.
C12_Witness ==
    /\ pc = "done"
    /\ block_cnt >= 2
    /\ total_bytes > config.buf_size

\* C13: a run that has panicked takes no further step; the step that panics
\* reads nothing more, issues at most the calls of the one patch it was in, and
\* leaves every destination byte outside that patch as it was, so the blocks
\* patched earlier keep their source bytes; a write is followed by anything but
\* the panic only when it has transferred the whole slice.
C13_StopsAtFirstFailure ==
    [][ /\ pc # "panic"
        /\ pc' = "panic" =>
              /\ src_pos' = src_pos
              /\ src_buf' = src_buf
              /\ dest_buf' = dest_buf
              /\ io'.writes <= io.writes + 1
              /\ io'.seeks <= io.seeks + 3
              /\ err' = "read" => (dest' = dest /\ dest_pos' = dest_pos /\ io' = io)
              /\ Len(dest') >= Len(dest)
              /\ \A k \in 1..Len(dest) :
                    (k <= PatchTarget \/ k > PatchTarget + cmp_size)
                        => dest'[k] = dest[k]
        /\ (io'.writes > io.writes /\ pc' # "panic") =>
              \A j \in 1..cmp_size :
                  /\ PatchTarget + j <= Len(dest')
                  /\ dest'[PatchTarget + j] = src_slice[j]
      ]_vars

\* A run has panicked on a short write after an earlier block was patched, and
\* the earlier block still holds the source bytes written to it.
C13_Witness ==
    /\ pc = "panic"
    /\ err = "wc != cmp_size"
    /\ io.writes >= 2
    /\ \E i \in 1..Len(blocks) :
          /\ blocks[i].differ
          /\ \A j \in 1..blocks[i].size :
                /\ blocks[i].index * config.block_size + j <= Len(dest)
                /\ dest[blocks[i].index * config.block_size + j] = src[blocks[i].src_at + j]
                /\ dest0[blocks[i].dest_at + j] # src[blocks[i].src_at + j]

\* ceil(n / d)
CeilDiv(n, d) == (n + d - 1) \div d

\* C14: for a source and a destination with the same content of length L and a
\* buf_size that is a whole number of blocks, no block differs, every compared
\* block but the last has block_size bytes, and the run completes with
\* total_bytes = L and block_cnt = ceil(L / block_size).
C14_IdenticalStreams ==
    (src = dest0 /\ Aligned) =>
        /\ diff_blocks = 0
        /\ diff_bytes = 0
        /\ \A i \in 1..(Len(blocks) - 1) : blocks[i].size = config.block_size
        /\ pc = "done" =>
              /\ total_bytes = Len(src)
              /\ block_cnt = CeilDiv(Len(src), config.block_size)

\* A run on identical streams has completed after several blocks, the last one
\* shorter than block_size.
C14_Witness ==
    /\ pc = "done"
    /\ src = dest0
    /\ Aligned
    /\ block_cnt >= 2
    /\ blocks[Len(blocks)].size < config.block_size

\* Every block is the next block_size bytes of its refill, or what is left of
\* the refill when that is less, and lies inside the one refill: the block after
\* it starts where it ends in the same buffers, or at offset 0 of a new refill.
ShortRemainderBlocks ==
    \A i \in 1..Len(blocks) :
        LET b == blocks[i]
            filled == Min(b.src_fill, b.dest_fill)
        IN  /\ b.size = Min(config.block_size, filled - b.offs)
            /\ b.offs + b.size <= filled
            /\ i < Len(blocks) =>
                  IF b.offs + b.size < filled
                     THEN blocks[i + 1].offs = b.offs + b.size
                     ELSE blocks[i + 1].offs = 0

\* C15: the remainder of a refill that is shorter than block_size is compared
\* as one short block, no block spans two refills, and the block that begins a
\* refill has its two slices at stream offset index * block_size.
C15_RefillStartsAtIndexOffset ==
    /\ ShortRemainderBlocks
    /\ \A i \in 1..Len(blocks) :
          blocks[i].offs = 0 =>
              /\ blocks[i].src_at = blocks[i].index * config.block_size
              /\ blocks[i].dest_at = blocks[i].index * config.block_size

\* The part of C15 about the remainder and the refill boundary holds of every
\* run, whatever the sizes.
C15_ShortRemainderBlocks == ShortRemainderBlocks

\* C15 holds of every run whose buf_size is a whole number of blocks.
C15_AlignedRefillStartsAtIndexOffset == Aligned => C15_RefillStartsAtIndexOffset

\* sync_files as a function of the two streams and the configuration, every
\* fill_buf returning in one piece min(buf_size, bytes left): the block loop
\* over one pair of filled buffers, from buffer offset offs.
RECURSIVE WholeFillWalk(_, _, _, _, _)
WholeFillWalk(st, offs, sbuf, dbuf, c) ==
    IF ~(offs < Len(sbuf) /\ offs < Len(dbuf)) THEN st
    ELSE LET size == Min(Min(c.block_size, Len(sbuf) - offs),
                         Min(c.block_size, Len(dbuf) - offs))
             ss == Slice(sbuf, offs, offs + size)
             ds == Slice(dbuf, offs, offs + size)
             differ == ss # ds
         IN  WholeFillWalk(
                [dest        |-> IF differ /\ ~c.dry_run
                                    THEN WriteAt(st.dest, st.block_cnt * c.block_size, ss)
                                    ELSE st.dest,
                 src_pos     |-> st.src_pos,
                 dest_pos    |-> st.dest_pos,
                 block_cnt   |-> st.block_cnt + 1,
                 total_bytes |-> st.total_bytes + size,
                 diff_blocks |-> IF differ THEN st.diff_blocks + 1 ELSE st.diff_blocks,
                 diff_bytes  |-> IF differ THEN st.diff_bytes + size ELSE st.diff_bytes,
                 blocks      |-> Append(st.blocks,
                                    [index |-> st.block_cnt, size |-> size, differ |-> differ])],
                offs + size, sbuf, dbuf, c)

\* The outer loop of that function: refill both buffers, stop at an empty one.
RECURSIVE WholeFillRun(_, _, _)
WholeFillRun(st, s, c) ==
    LET sn == Min(c.buf_size, Len(s) - st.src_pos)
        dn == Min(c.buf_size, Max(Len(st.dest) - st.dest_pos, 0))
    IN  IF sn = 0 \/ dn = 0 THEN st
        ELSE WholeFillRun(
                WholeFillWalk([st EXCEPT !.src_pos = @ + sn, !.dest_pos = @ + dn],
                              0,
                              Slice(s, st.src_pos, st.src_pos + sn),
                              Slice(st.dest, st.dest_pos, st.dest_pos + dn),
                              c),
                s, c)

\* The outcome of the current run by that function.
WholeFillOutcome ==
    WholeFillRun([dest |-> dest0, src_pos |-> 0, dest_pos |-> 0, block_cnt |-> 0,
                  total_bytes |-> 0, diff_blocks |-> 0, diff_bytes |-> 0,
                  blocks |-> << >>],
                 src, config)

\* C16: whatever counts the individual read() calls returned, a completed run
\* has compared the same blocks (index, size, outcome), ends with the same
\* statistics and leaves the same destination as the run in which every fill is
\* a single whole read.
C16_ReadGranularityIrrelevant ==
    pc = "done" =>
        LET r == WholeFillOutcome IN
        /\ Len(blocks) = Len(r.blocks)
        /\ \A i \in 1..Len(blocks) :
              /\ blocks[i].index = r.blocks[i].index
              /\ blocks[i].size = r.blocks[i].size
              /\ blocks[i].differ = r.blocks[i].differ
        /\ block_cnt = r.block_cnt
        /\ total_bytes = r.total_bytes
        /\ diff_blocks = r.diff_blocks
        /\ diff_bytes = r.diff_bytes
        /\ dest = r.dest

\* A run with buffers of several bytes, which its reads may have filled piece
\* by piece, has completed after several blocks, one of them patched.
C16_Witness ==
    /\ pc = "done"
    /\ config.buf_size >= 2
    /\ block_cnt >= 2
    /\ io.writes >= 1

\* block_size or buf_size is 0
ZeroSize == config.block_size = 0 \/ config.buf_size = 0

\* C17: a run whose block_size or buf_size is 0 is turned away: it never
\* compares a block and never completes like a run on valid sizes.
C17_ZeroSizeRejected == ZeroSize => pc \notin {"compare", "done"}

\* With block_size 0 and a non-empty buffer the block loop does not advance:
\* block after block of size 0 is counted at buffer offset 0.
C17_ZeroBlockSizeSpins ==
    /\ config.block_size = 0
    /\ pc = "compare"
    /\ block_cnt = MaxCount
    /\ buf_offs = 0
    /\ total_bytes = 0

\* With buf_size 0 the run completes at once, having compared nothing.
C17_ZeroBufSizeCompletes ==
    /\ config.buf_size = 0
    /\ pc = "done"
    /\ block_cnt = 0
    /\ err = "none"

\* A refill is about to start: the outer loop is at its first fill_buf call.
RefillStart == pc = "fill_src" /\ read_size = 0

\* Every fill of this run so far came back full, for both streams.
AllFull ==
    \A i \in 1..Len(blocks) :
        /\ blocks[i].src_fill = config.buf_size
        /\ blocks[i].dest_fill = config.buf_size

C19_AlignedPatchInsideReadPart ==
    (Aligned /\ pc = "compare" /\ src_slice # dest_slice /\ WritesEnabled) =>
        PatchTarget + cmp_size <= dest_pos

====
